---- MODULE Spec2Model ----
(***************************************************************************)
(* A model of cryri: the recursive variable/user expander and the strict   *)
(* directory sanitizer of cryri/validators.py, the lenient sanitizer and   *)
(* the description builder of cryri/utils.py, the JobManager of            *)
(* cryri/job_manager.py and the run-a-config-file path of cryri/main.py.   *)
(*                                                                         *)
(* Strings are sequences of one-character strings.  Python indices are     *)
(* 0-based; the positions below are 1-based, so Python's s[i:j] is         *)
(* SubSeq(s, i+1, j).                                                      *)
(***************************************************************************)
EXTENDS Integers, Sequences, FiniteSets, TLC

VARIABLES
    environ,    \* os.environ: a function from variable names to values
    xin,        \* expander: the argument of expand_vars_and_user
    xout,       \* expander: the value it returned
    xlog,       \* expander: the strings passed to logging.warning, in order
    xpc,        \* expander: "ready" before the call, "done" after it
    xgiven,     \* expander: the argument as it was when the call began
    xobjs,      \* expander: the list, tuple and dict objects of the result
    xintern,    \* whether the interpreter keeps one object for every empty tuple
    sin,        \* sanitizer: the path given, None or a string
    sout,       \* sanitizer: what the call returned or raised
    spc,        \* sanitizer: "ready" before the call, the call made after it
    jobs,       \* the region's jobs, as the remote API lists them
    fetch_logs_max_retries, \* JobManager.fetch_logs_max_retries
    jop,        \* the JobManager method called, "none" before the call
    jpc,        \* its position: "idle", "poll", "find", "returned", "raised"
    job_hash,   \* its argument, the partial hash
    n_retries,  \* show_logs: the local n_retries
    job_status, \* show_logs: the status read last
    n_queries,  \* show_logs: calls of get_job_status so far
    n_sleeps,   \* show_logs: calls of time.sleep so far
    n_infos,    \* show_logs: "Retry fetching logs" messages so far
    remote,     \* the client_lib.logs and client_lib.kill calls made
    errors,     \* the logging.error messages of the call
    rfile,      \* run path: what the configuration file holds
    rcfg,       \* run path: the configuration object, as the call left it
    fs,         \* the directories that exist, by absolute path
    now,        \* the minute datetime.now() reads
    rplan,      \* how the remote API will answer the submission
    revents,    \* run path: the external calls and log lines, in order
    rout,       \* run path: how the entry point ended
    rentry,     \* run path: the entry point called, "none" before the call
    rpc         \* run path: "ready" before the call, "done" after it

xvars == <<xin, xout, xlog, xpc, xgiven, xobjs, xintern>>
svars == <<sin, sout, spc>>
rvars == <<rfile, rcfg, fs, now, rplan, revents, rout, rentry, rpc>>
jvars == <<jobs, fetch_logs_max_retries, jop, jpc, job_hash, n_retries, job_status,
           n_queries, n_sleeps, n_infos, remote, errors>>

-----------------------------------------------------------------------------
\* Bounds of the model.

\* longest input string of the expander
MaxLen == 4

\* most jobs in a listing
MaxJobs == 2

\* largest retry budget a JobManager is constructed with
MaxRetries == 2

-----------------------------------------------------------------------------
\* Strings.

Alphabet == {"$", "~", "/", "A", "{", "}"}

\* the characters the regular expression class \w matches (re.ASCII):
\* every letter the model writes
WordChars == {"A", "h", "r", "u", "x", "w", "p", "c", "d", "tm", "home", "jovyan"}

Strings == UNION {[1..n -> Alphabet] : n \in 0..MaxLen}

Range(s) == {s[i] : i \in 1..Len(s)}

Tail_(s, i) == SubSeq(s, i, Len(s))

\* s.startswith(prefix)
StartsWith(s, prefix) ==
    /\ Len(prefix) <= Len(s)
    /\ SubSeq(s, 1, Len(prefix)) = prefix

\* s.find(c, from - 1) + 1: the least position >= from holding c, 0 if none
Find(s, c, from) ==
    LET hits == {p \in from..Len(s) : s[p] = c}
    IN  IF hits = {} THEN 0 ELSE CHOOSE p \in hits : \A q \in hits : p <= q

\* s.rstrip(c)
RECURSIVE RStrip(_, _)
RStrip(s, c) ==
    IF s # <<>> /\ s[Len(s)] = c THEN RStrip(SubSeq(s, 1, Len(s) - 1), c) ELSE s

\* s.split(sep): the parts of s between the occurrences of sep
RECURSIVE SplitFrom(_, _, _, _)
SplitFrom(s, sep, p, start) ==
    IF p + Len(sep) - 1 > Len(s) THEN <<SubSeq(s, start, Len(s))>>
    ELSE IF SubSeq(s, p, p + Len(sep) - 1) = sep
    THEN <<SubSeq(s, start, p - 1)>> \o SplitFrom(s, sep, p + Len(sep), p + Len(sep))
    ELSE SplitFrom(s, sep, p + 1, start)

Split(s, sep) == SplitFrom(s, sep, 1, 1)

\* s.strip()
RECURSIVE LStrip(_, _)
LStrip(s, c) == IF s # <<>> /\ Head(s) = c THEN LStrip(Tail(s), c) ELSE s

Strip(s) == LStrip(RStrip(s, " "), " ")

\* s.replace(old, new), old not empty
RECURSIVE Replace(_, _, _)
Replace(s, old, new) ==
    IF Len(s) < Len(old) THEN s
    ELSE IF SubSeq(s, 1, Len(old)) = old
    THEN new \o Replace(Tail_(s, Len(old) + 1), old, new)
    ELSE <<Head(s)>> \o Replace(Tail(s), old, new)

\* t occurs in s
HasInfix(s, t) ==
    \E i \in 1..(Len(s) - Len(t) + 1) : SubSeq(s, i, i + Len(t) - 1) = t

-----------------------------------------------------------------------------
\* os.path.expandvars, as posixpath defines it: the references are the
\* matches of \$(\w+|\{[^}]*\}), found left to right; a substituted value
\* is not scanned again.

\* the last position of the maximal run of word characters starting at p
RECURSIVE WordEnd(_, _)
WordEnd(path, p) ==
    IF p < Len(path) /\ path[p + 1] \in WordChars THEN WordEnd(path, p + 1) ELSE p

\* the match of the pattern anchored at position p: group is group(1) and
\* j the position after the match
MatchAt(path, p) ==
    IF p >= Len(path) \/ path[p] # "$"
    THEN [ok |-> FALSE, group |-> <<>>, j |-> p]
    ELSE IF path[p + 1] \in WordChars
    THEN LET e == WordEnd(path, p + 1)
         IN  [ok |-> TRUE, group |-> SubSeq(path, p + 1, e), j |-> e + 1]
    ELSE IF path[p + 1] = "{" /\ Find(path, "}", p + 2) # 0
    THEN LET q == Find(path, "}", p + 2)
         IN  [ok |-> TRUE, group |-> SubSeq(path, p + 1, q), j |-> q + 1]
    ELSE [ok |-> FALSE, group |-> <<>>, j |-> p]

\* _varprog.search(path, i - 1): the position of the first match at or
\* after i, 0 if none
Search(path, i) ==
    LET hits == {p \in i..Len(path) : MatchAt(path, p).ok}
    IN  IF hits = {} THEN 0 ELSE CHOOSE p \in hits : \A q \in hits : p <= q

\* the variable name of a match: the braces of ${name} are dropped
VarName(group) ==
    IF group # <<>> /\ Head(group) = "{" /\ group[Len(group)] = "}"
    THEN SubSeq(group, 2, Len(group) - 1)
    ELSE group

\* a variant of the loop that erases a reference to an undefined variable, as
\* a shell would
RECURSIVE ExpandVarsLoopErasing(_, _, _)
ExpandVarsLoopErasing(path, i, env) ==
    LET p == Search(path, i)
    IN  IF p = 0 THEN path
        ELSE LET m    == MatchAt(path, p)
                 name == VarName(m.group)
                 head == SubSeq(path, 1, p - 1)
                         \o (IF name \in DOMAIN env THEN env[name] ELSE <<>>)
             IN  ExpandVarsLoopErasing(head \o Tail_(path, m.j), Len(head) + 1, env)

RECURSIVE ExpandVarsLoop(_, _, _)
ExpandVarsLoop(path, i, env) ==
    LET p == Search(path, i)
    IN  IF p = 0 THEN path
        ELSE LET m    == MatchAt(path, p)
                 name == VarName(m.group)
             IN  IF name \notin DOMAIN env
                 THEN ExpandVarsLoop(path, m.j, env)
                 ELSE LET head == SubSeq(path, 1, p - 1) \o env[name]
                      IN  ExpandVarsLoop(head \o Tail_(path, m.j), Len(head) + 1, env)

expandvars(path, env) ==
    IF "$" \notin Range(path) THEN path ELSE ExpandVarsLoop(path, 1, env)

-----------------------------------------------------------------------------
\* os.path.expanduser, as posixpath defines it.

HOME == <<"HOME">>

\* the password database: pw_dir of the current user, and of the users
\* that ~user can name
PwDir == <<"/", "r">>
PwNam == [n \in {<<"A", "A">>} |-> <<"/", "u">>]

expanduser(path, env) ==
    IF ~StartsWith(path, <<"~">>) THEN path
    ELSE LET f == Find(path, "/", 2)
             i == IF f = 0 THEN Len(path) + 1 ELSE f
             name == SubSeq(path, 2, i - 1)
         IN  IF i # 2 /\ name \notin DOMAIN PwNam THEN path
             ELSE LET userhome == IF i = 2
                                  THEN IF HOME \in DOMAIN env THEN env[HOME] ELSE PwDir
                                  ELSE PwNam[name]
                      r == RStrip(userhome, "/") \o Tail_(path, i)
                  IN  IF r = <<>> THEN <<"/">> ELSE r

-----------------------------------------------------------------------------
\* Configuration values: a tree of tagged nodes.  A dict is the sequence of
\* its <<key, value>> items in insertion order.

NoneV       == [tag |-> "none", v |-> <<>>]
StrV(s)     == [tag |-> "str", v |-> s]
IntV(n)     == [tag |-> "int", v |-> <<n>>]
ListV(xs)   == [tag |-> "list", v |-> xs]
TupleV(xs)  == [tag |-> "tuple", v |-> xs]
DictV(kvs)  == [tag |-> "dict", v |-> kvs]

\* a variant that expands the home marker before the variables
ExpandStrUserFirst(s, env) == expandvars(expanduser(s, env), env)

\* expanduser(expandvars(s))
ExpandStr(s, env) == expanduser(expandvars(s, env), env)

\* a variant that looks for the marker at the start of the string only
StartsWithDollar(s) == StartsWith(s, <<"$">>)

\* the `if "$" in s` test that guards logging.warning
StillHasDollar(s) == "$" \in Range(s)

\* expand_vars_and_user: ret is the value returned and log the warnings
\* emitted, in the order of the calls
RECURSIVE ExpandRun(_, _), ExpandItems(_, _, _)
ExpandRun(s, env) ==
    IF s.tag = "none" THEN [ret |-> NoneV, log |-> <<>>]
    ELSE IF s.tag \in {"tuple", "list", "dict"}
    THEN LET r == ExpandItems(s.v, s.tag = "dict", env)
         IN  [ret |-> [tag |-> s.tag, v |-> r.ret], log |-> r.log]
    ELSE IF s.tag # "str" THEN [ret |-> s, log |-> <<>>]
    ELSE LET e == ExpandStr(s.v, env)
         IN  [ret |-> StrV(e), log |-> IF StillHasDollar(e) THEN <<e>> ELSE <<>>]

\* a variant of the comprehension that expands the keys of a dict too
RECURSIVE ExpandItemsKeysToo(_, _, _)
ExpandItemsKeysToo(xs, isDict, env) ==
    IF xs = <<>> THEN [ret |-> <<>>, log |-> <<>>]
    ELSE LET h == ExpandRun(IF isDict THEN Head(xs)[2] ELSE Head(xs), env)
             t == ExpandItemsKeysToo(Tail(xs), isDict, env)
         IN  [ret |-> <<IF isDict THEN <<ExpandRun(Head(xs)[1], env).ret, h.ret>>
                        ELSE h.ret>> \o t.ret,
              log |-> h.log \o t.log]

\* the comprehension over the elements (of a dict: over its items, the key
\* kept and the value expanded)
ExpandItems(xs, isDict, env) ==
    IF xs = <<>> THEN [ret |-> <<>>, log |-> <<>>]
    ELSE LET h == ExpandRun(IF isDict THEN Head(xs)[2] ELSE Head(xs), env)
             t == ExpandItems(Tail(xs), isDict, env)
         IN  [ret |-> <<IF isDict THEN <<Head(xs)[1], h.ret>> ELSE h.ret>> \o t.ret,
              log |-> h.log \o t.log]

expand_vars_and_user(s, env) == ExpandRun(s, env).ret

-----------------------------------------------------------------------------
\* The list, tuple and dict objects of a call.  A container of the argument
\* is known by its place in the argument, a container the call builds by
\* the place of the node it was built for.  An empty tuple is the
\* interpreter's one empty tuple where the interpreter keeps one (CPython
\* does; the language leaves it open).

EmptyTuple == <<"empty_tuple", <<>>>>

IsContainer(s) == s.tag \in {"tuple", "list", "dict"}

\* the object the caller passed at this place
GivenObject(s, path) ==
    IF s.tag = "tuple" /\ s.v = <<>> /\ xintern THEN EmptyTuple ELSE <<"given", path>>

\* a variant of the call that fills the container it was given
BuiltInPlace(s, path) == GivenObject(s, path)

\* the object that tuple(...), [...] or {...} builds for the node s
BuiltObject(s, path) ==
    IF s.tag = "tuple" /\ s.v = <<>> /\ xintern THEN EmptyTuple ELSE <<"built", path>>

\* the element at place i of a container (of a dict: the value of item i)
Child(s, i) == IF s.tag = "dict" THEN s.v[i][2] ELSE s.v[i]

\* the containers of the argument
RECURSIVE InputObjects(_, _)
InputObjects(s, path) ==
    IF ~IsContainer(s) THEN {}
    ELSE {GivenObject(s, path)}
         \cup UNION {InputObjects(Child(s, i), Append(path, i)) : i \in 1..Len(s.v)}

\* the containers of the value expand_vars_and_user returns for s
RECURSIVE ResultObjects(_, _)
ResultObjects(s, path) ==
    IF ~IsContainer(s) THEN {}
    ELSE {BuiltObject(s, path)}
         \cup UNION {ResultObjects(Child(s, i), Append(path, i)) : i \in 1..Len(s.v)}

-----------------------------------------------------------------------------
\* The environments and the inputs of the expander.

Environs ==
    { [n \in {HOME} |-> <<"/", "h">>],
      [n \in {HOME} |-> <<"/">>],
      [n \in {HOME, <<"A">>} |-> IF n = HOME THEN <<"/", "h", "/">> ELSE <<"~">>],
      [n \in {HOME, <<"A">>} |-> IF n = HOME THEN <<"/", "h">> ELSE <<"~", "A">>],
      [n \in {HOME, <<"A">>} |-> IF n = HOME THEN <<"/", "h">> ELSE <<"$", "A">>],
      [n \in {HOME, <<"A">>, <<"A", "A">>} |->
          IF n = HOME THEN <<"/", "h">> ELSE IF n = <<"A">> THEN <<"x">> ELSE <<"~", "/">>],
      [n \in {<<"A">>} |-> <<"~", "/", "x">>] }

SomeLeaves ==
    { NoneV, IntV(1), StrV(<<"$", "A">>), StrV(<<"~">>), StrV(<<"$", "A", "A", "/">>) }

Containers ==
    {ListV(<<a, b>>) : a, b \in SomeLeaves}
    \cup {TupleV(<<a, ListV(<<b>>)>>) : a, b \in SomeLeaves}
    \cup {DictV(<< <<StrV(<<"$", "A">>), a>>, <<IntV(1), TupleV(<<b>>)>> >>) : a, b \in SomeLeaves}
    \cup {TupleV(<<>>), ListV(<<>>), DictV(<<>>)}
    \cup {ListV(<<TupleV(<<>>), a>>) : a \in SomeLeaves}

Inputs == {StrV(s) : s \in Strings} \cup {NoneV, IntV(1)} \cup Containers

-----------------------------------------------------------------------------
\* The expander as a state machine: one call on one input.

\* the JobManager before any call, with nothing listed
JobsIdle ==
    /\ jobs = <<>>
    /\ fetch_logs_max_retries = 0
    /\ jop = "none"
    /\ jpc = "idle"
    /\ job_hash = <<>>
    /\ n_retries = 0
    /\ job_status = "none"
    /\ n_queries = 0
    /\ n_sleeps = 0
    /\ n_infos = 0
    /\ remote = <<>>
    /\ errors = <<>>

\* the sanitizers, not called
SanitizerIdle ==
    /\ sin = NoneV
    /\ sout = [raised |-> FALSE, ret |-> NoneV, msg |-> <<>>]
    /\ spc = "off"

\* the run path before any call, with nothing to run
RunIdle ==
    /\ rfile = [kind |-> "missing", cfg |-> <<>>]
    /\ rcfg = <<>>
    /\ rentry = "none"
    /\ fs = {}
    /\ now = "m1"
    /\ rplan = "ok"
    /\ revents = <<>>
    /\ rout = [kind |-> "none", v |-> <<>>]
    /\ rpc = "off"

ExpandInit ==
    /\ JobsIdle
    /\ RunIdle
    /\ SanitizerIdle
    /\ environ \in Environs
    /\ xin \in Inputs
    /\ xout = NoneV
    /\ xlog = <<>>
    /\ xpc = "ready"
    /\ xgiven = xin
    /\ xobjs = {}
    /\ xintern \in BOOLEAN

Expand ==
    /\ xpc = "ready"
    /\ LET r == ExpandRun(xin, environ)
       IN  /\ xout' = r.ret
           /\ xlog' = r.log
    /\ xobjs' = ResultObjects(xin, <<>>)
    /\ xpc' = "done"
    /\ UNCHANGED <<environ, xin, xgiven, xintern, svars, jvars, rvars>>

vars == <<environ, xvars, svars, jvars, rvars>>

ExpandNext == Expand

ExpandSpec == ExpandInit /\ [][ExpandNext]_vars

-----------------------------------------------------------------------------
\* Properties of the expander.

\* the strings at the leaves of a value, in the order of the traversal (of a
\* dict: the values, not the keys)
RECURSIVE ValueLeaves(_), ItemsLeaves(_, _)
ValueLeaves(v) ==
    IF v.tag = "str" THEN <<v.v>>
    ELSE IF v.tag \in {"tuple", "list", "dict"} THEN ItemsLeaves(v.v, v.tag = "dict")
    ELSE <<>>

ItemsLeaves(xs, isDict) ==
    IF xs = <<>> THEN <<>>
    ELSE ValueLeaves(IF isDict THEN Head(xs)[2] ELSE Head(xs)) \o ItemsLeaves(Tail(xs), isDict)

\* the pairs <<input leaf, output leaf>> of a finished call; a call that
\* changed the number of leaves pairs nothing with "?"
LeafPairs ==
    LET a == ValueLeaves(xin)
        b == ValueLeaves(xout)
    IN  IF Len(a) # Len(b) THEN {<<"?", "?">>}
        ELSE {<<a[k], b[k]>> : k \in 1..Len(a)}

\* the home directory that replaces a lone leading marker: $HOME, else the
\* password database's entry, without trailing separators
HomeDir == RStrip(IF HOME \in DOMAIN environ THEN environ[HOME] ELSE PwDir, "/")

\* t with its first character replaced by the home directory
HomeFor(t) ==
    LET r == HomeDir \o Tail_(t, 2) IN IF r = <<>> THEN <<"/">> ELSE r

\* s begins with a reference to a defined variable whose value begins with
\* the home marker
BeginsWithTildeVar(s) ==
    /\ MatchAt(s, 1).ok
    /\ VarName(MatchAt(s, 1).group) \in DOMAIN environ
    /\ StartsWith(environ[VarName(MatchAt(s, 1).group)], <<"~">>)

\* s with every reference replaced on its own: by the value of a defined
\* variable, by its own text otherwise
RECURSIVE SubstFrom(_, _)
SubstFrom(s, p) ==
    IF p > Len(s) THEN <<>>
    ELSE LET m == MatchAt(s, p)
         IN  IF ~m.ok THEN <<s[p]>> \o SubstFrom(s, p + 1)
             ELSE (IF VarName(m.group) \in DOMAIN environ
                   THEN environ[VarName(m.group)]
                   ELSE SubSeq(s, p, m.j - 1)) \o SubstFrom(s, m.j)

\* C8 as stated: a string that begins with a variable whose value begins
\* with `~` comes out with that `~` replaced by the home directory, and a
\* string whose substituted form does not begin with `~` comes out as that
\* form.
C8_AsStated ==
    xpc = "done" =>
        \A pr \in LeafPairs :
            /\ BeginsWithTildeVar(pr[1]) => pr[2] = HomeFor(SubstFrom(pr[1], 1))
            /\ ~StartsWith(SubstFrom(pr[1], 1), <<"~">>) => pr[2] = SubstFrom(pr[1], 1)

\* C8, amended: variables are substituted first and the home marker second.
\* When the substituted string is `~` or begins with `~/`, the `~` is
\* replaced by the home directory; when it begins with `~name`, it is
\* replaced by that user's home if the password database knows the name
\* and the string is left alone otherwise; a `~` elsewhere is never
\* replaced.
C8_ExpandOrder ==
    xpc = "done" =>
        \A pr \in LeafPairs :
            LET t == SubstFrom(pr[1], 1)
                f == Find(t, "/", 2)
                i == IF f = 0 THEN Len(t) + 1 ELSE f
            IN  /\ ~StartsWith(t, <<"~">>) => pr[2] = t
                /\ StartsWith(t, <<"~">>) /\ i = 2 => pr[2] = HomeFor(t)
                /\ StartsWith(t, <<"~">>) /\ i > 2 =>
                       pr[2] = IF SubSeq(t, 2, i - 1) \in DOMAIN PwNam
                               THEN RStrip(PwNam[SubSeq(t, 2, i - 1)], "/") \o Tail_(t, i)
                               ELSE t

\* a finished call on a string that begins with a variable whose value is
\* `~`, the marker replaced in the result
C8_Witness ==
    /\ xpc = "done"
    /\ xin = StrV(<<"$", "A", "/", "A">>)
    /\ <<"A">> \in DOMAIN environ
    /\ environ[<<"A">>] = <<"~">>
    /\ xout = StrV(<<"/", "h", "/", "A">>)

\* C9: in the result every reference to a defined variable is replaced by
\* its value and every reference to an undefined name keeps its text, at
\* every leaf of the structure; the home step then applies to the result.
C9_UndefinedKept ==
    xpc = "done" =>
        \A pr \in LeafPairs : pr[2] = expanduser(SubstFrom(pr[1], 1), environ)

\* a finished call on a list with a defined and an undefined reference
C9_Witness ==
    /\ xpc = "done"
    /\ xin = ListV(<<StrV(<<"$", "A">>), StrV(<<"$", "A", "A", "/">>)>>)
    /\ <<"A">> \in DOMAIN environ
    /\ <<"A", "A">> \notin DOMAIN environ
    /\ xout = ListV(<<StrV(environ[<<"A">>]), StrV(<<"$", "A", "A", "/">>)>>)

\* C10: the warnings of a call are exactly the result's leaves that still
\* hold a `$`, each logged once and in order, and each leaf is returned as
\* expanded.
C10_WarnIffDollar ==
    xpc = "done" =>
        /\ xlog = SelectSeq(ValueLeaves(xout), LAMBDA s : "$" \in Range(s))
        /\ \A pr \in LeafPairs : pr[2] = expanduser(expandvars(pr[1], environ), environ)

\* a finished call that warned about a `$` left inside the result
C10_Witness ==
    /\ xpc = "done"
    /\ xin = StrV(<<"/", "$", "A", "A">>)
    /\ xout = xin
    /\ xlog = <<xout.v>>

-----------------------------------------------------------------------------
\* JobManager (cryri/job_manager.py), and the JobManager of cryri/main.py.

\* the statuses the status API answers with
PendingStatuses == {"Pending", "Inqueue", "Starting"}
Statuses == PendingStatuses \cup {"Running", "Completed"}

\* the jobs a region may hold: pad is the blank the listing may print after
\* the hash
JobEntries ==
    { [name |-> <<"n">>, hash |-> <<"a", "b">>, pad |-> <<>>],
      [name |-> <<"m">>, hash |-> <<"b">>, pad |-> <<" ">>],
      [name |-> <<"k">>, hash |-> <<"c", "a">>, pad |-> <<" ">>] }

\* the partial hashes a user may give
PartialHashes ==
    { <<>>, <<"a">>, <<"a", "b">>, <<"b", "b">>, <<"a", "c">> }

JobListings == UNION {[1..n -> JobEntries] : n \in 0..MaxJobs}

\* one line of the listing client_lib.jobs prints: "name : hash"
FormatJobLine(j) == j.name \o <<" ", ":", " ">> \o j.hash \o j.pad

\* get_jobs: the lines of the listing
get_jobs == [k \in 1..Len(jobs) |-> FormatJobLine(jobs[k])]

\* raw_job_to_id: ok is FALSE where split(" : ")[1] raises IndexError
raw_job_to_id(job_string) ==
    LET parts == Split(job_string, <<" ", ":", " ">>)
    IN  IF Len(parts) < 2 THEN [ok |-> FALSE, id |-> <<>>]
        ELSE [ok |-> TRUE, id |-> Strip(parts[2])]

\* a variant of the test with its operands exchanged
ContainsReversed(job_id, partial_hash) ==
    \E i \in 1..(Len(partial_hash) - Len(job_id) + 1) :
        SubSeq(partial_hash, i, i + Len(job_id) - 1) = job_id

\* partial_hash in job_hash
Contains(job_id, partial_hash) ==
    \E i \in 1..(Len(job_id) - Len(partial_hash) + 1) :
        SubSeq(job_id, i, i + Len(partial_hash) - 1) = partial_hash

\* find_job_by_hash over the lines from position k on: found is FALSE for
\* None, raised is TRUE where raw_job_to_id raises
RECURSIVE FindFrom(_, _, _)
FindFrom(lines, k, partial_hash) ==
    IF k > Len(lines) THEN [raised |-> FALSE, found |-> FALSE, hash |-> <<>>]
    ELSE LET r == raw_job_to_id(lines[k])
         IN  IF ~r.ok THEN [raised |-> TRUE, found |-> FALSE, hash |-> <<>>]
             ELSE IF Contains(r.id, partial_hash)
             THEN [raised |-> FALSE, found |-> TRUE, hash |-> r.id]
             ELSE FindFrom(lines, k + 1, partial_hash)

find_job_by_hash(partial_hash) == FindFrom(get_jobs, 1, partial_hash)

\* `if full_hash:` is false for None and for the empty string
Truthy(r) == r.found /\ r.hash # <<>>

\* the history counters stop counting here; the code never gets this far
CounterCap == MaxRetries + 3
Count(n) == IF n < CounterCap THEN n + 1 ELSE n

\* a variant of the loop that never counts a retry
SameRetries(n) == n

\* n_retries += 1
NextRetries(n) == n + 1

\* job_status in ['Pending', 'Inqueue', 'Starting']
IsPending(st) == st \in PendingStatuses

\* n_retries > self.fetch_logs_max_retries
RetriesExhausted(n) == n > fetch_logs_max_retries

\* the expander, not called
ExpanderIdle ==
    /\ xin = NoneV
    /\ xout = NoneV
    /\ xlog = <<>>
    /\ xpc = "off"
    /\ xgiven = NoneV
    /\ xobjs = {}
    /\ xintern = TRUE

ExpandOff ==
    /\ environ = [n \in {HOME} |-> <<"/", "h">>]
    /\ ExpanderIdle

\* JobManager.__init__, the listing of the region being any
JobsInit ==
    /\ ExpandOff
    /\ SanitizerIdle
    /\ RunIdle
    /\ jobs \in JobListings
    /\ fetch_logs_max_retries \in 0..MaxRetries
    /\ jop = "none"
    /\ jpc = "idle"
    /\ job_hash = <<>>
    /\ n_retries = 0
    /\ job_status = "none"
    /\ n_queries = 0
    /\ n_sleeps = 0
    /\ n_infos = 0
    /\ remote = <<>>
    /\ errors = <<>>

\* the tail of show_logs and the whole of kill_job: find the job, call the
\* remote operation op on it or log that there is none
FindAndCall(op, h) ==
    LET full_hash == find_job_by_hash(h)
    IN  IF full_hash.raised
        THEN /\ jpc' = "raised"
             /\ UNCHANGED <<remote, errors>>
        ELSE /\ jpc' = "returned"
             /\ IF Truthy(full_hash)
                THEN /\ remote' = Append(remote, [op |-> op, hash |-> full_hash.hash])
                     /\ UNCHANGED errors
                ELSE /\ errors' = Append(errors, <<"No job found with hash", h>>)
                     /\ UNCHANGED remote

\* show_logs is called: n_retries = 0
ShowLogsCall(h) ==
    /\ jpc = "idle"
    /\ jop' = "show_logs"
    /\ job_hash' = h
    /\ n_retries' = 0
    /\ jpc' = "poll"
    /\ UNCHANGED <<environ, xvars, svars, rvars, jobs, fetch_logs_max_retries, job_status,
                   n_queries, n_sleeps, n_infos, remote, errors>>

\* one turn of the `while True` loop of show_logs
ShowLogsPoll(st) ==
    /\ jpc = "poll"
    /\ job_status' = st
    /\ n_queries' = Count(n_queries)
    /\ IF IsPending(st)
       THEN IF RetriesExhausted(n_retries)
            THEN /\ errors' = Append(errors, <<"Max retries reached", job_hash>>)
                 /\ jpc' = "find"
                 /\ UNCHANGED <<n_retries, n_sleeps, n_infos>>
            ELSE /\ n_infos' = Count(n_infos)
                 /\ n_sleeps' = Count(n_sleeps)
                 /\ n_retries' = NextRetries(n_retries)
                 /\ jpc' = "poll"
                 /\ UNCHANGED errors
       ELSE /\ jpc' = "find"
            /\ UNCHANGED <<n_retries, n_sleeps, n_infos, errors>>
    /\ UNCHANGED <<environ, xvars, svars, rvars, jobs, fetch_logs_max_retries, jop, job_hash, remote>>

\* show_logs after the loop
ShowLogsFetch ==
    /\ jpc = "find"
    /\ FindAndCall("logs", job_hash)
    /\ UNCHANGED <<environ, xvars, svars, rvars, jobs, fetch_logs_max_retries, jop, job_hash,
                   n_retries, job_status, n_queries, n_sleeps, n_infos>>

\* kill_job
KillJob(h) ==
    /\ jpc = "idle"
    /\ jop' = "kill_job"
    /\ job_hash' = h
    /\ FindAndCall("kill", h)
    /\ UNCHANGED <<environ, xvars, svars, rvars, jobs, fetch_logs_max_retries,
                   n_retries, job_status, n_queries, n_sleeps, n_infos>>

\* show_logs of the JobManager of main.py: no polling
MainShowLogs(h) ==
    /\ jpc = "idle"
    /\ jop' = "main_show_logs"
    /\ job_hash' = h
    /\ FindAndCall("logs", h)
    /\ UNCHANGED <<environ, xvars, svars, rvars, jobs, fetch_logs_max_retries,
                   n_retries, job_status, n_queries, n_sleeps, n_infos>>

JobsNext ==
    \/ \E h \in PartialHashes : ShowLogsCall(h)
    \/ \E st \in Statuses : ShowLogsPoll(st)
    \/ ShowLogsFetch
    \/ \E h \in PartialHashes : KillJob(h)
    \/ \E h \in PartialHashes : MainShowLogs(h)

JobsSpec == JobsInit /\ [][JobsNext]_vars

\* the same machine over the listings of at most one job
JobsFairInit ==
    /\ JobsInit
    /\ Len(jobs) <= 1

\* show_logs runs on the calling thread, which keeps taking steps: a turn
\* of the loop that can be taken is taken
JobsFairSpec ==
    /\ JobsFairInit
    /\ [][JobsNext]_vars
    /\ WF_vars(\E st \in Statuses : ShowLogsPoll(st))
    /\ WF_vars(ShowLogsFetch)

-----------------------------------------------------------------------------
\* Properties of JobManager.

\* no job of the listing has a hash that holds the partial hash
NoListedHashHolds(h) ==
    \A k \in 1..Len(jobs) :
        \A i \in 1..(Len(jobs[k].hash) - Len(h) + 1) :
            SubSeq(jobs[k].hash, i, i + Len(h) - 1) # h

\* C1: show_logs terminates whatever statuses the API answers with. The
\* loop is left at the first status that is not pending, or else with the
\* retry budget spent, after at most fetch_logs_max_retries + 2 queries.
C1_ShowLogsTerminates ==
    (jpc = "poll") ~>
        /\ jpc \in {"returned", "raised"}
        /\ n_queries <= fetch_logs_max_retries + 2
        /\ \/ job_status \notin PendingStatuses
           \/ n_retries > fetch_logs_max_retries

\* show_logs returned for a job that stayed pending through the whole budget
C1_Witness ==
    /\ jop = "show_logs"
    /\ jpc = "returned"
    /\ job_status = "Pending"
    /\ fetch_logs_max_retries = 2
    /\ n_queries = 4
    /\ errors[1] = <<"Max retries reached", job_hash>>

\* C2 as stated: a call of show_logs sleeps at most fetch_logs_max_retries
\* times, and logs every sleep.
C2_AsStated ==
    /\ n_sleeps <= fetch_logs_max_retries
    /\ n_infos = n_sleeps

-----------------------------------------------------------------------------
\* pathlib, over a file system without symbolic links.

\* the process's working directory
Cwd == <<"/", "w">>

\* the components of a path: empty components and "." are dropped
PathParts(p) == SelectSeq(Split(p, <<"/">>), LAMBDA c : c # <<>> /\ c # <<".">>)

\* Path(p)
Path(p) == [abs |-> StartsWith(p, <<"/">>), parts |-> PathParts(p)]

RECURSIVE JoinParts(_)
JoinParts(parts) ==
    IF parts = <<>> THEN <<>>
    ELSE IF Len(parts) = 1 THEN parts[1]
    ELSE parts[1] \o <<"/">> \o JoinParts(Tail(parts))

\* str(path)
PathStr(pp) ==
    IF pp.parts = <<>> THEN (IF pp.abs THEN <<"/">> ELSE <<".">>)
    ELSE (IF pp.abs THEN <<"/">> ELSE <<>>) \o JoinParts(pp.parts)

\* path.parent
Parent(pp) ==
    [abs |-> pp.abs,
     parts |-> IF pp.parts = <<>> THEN <<>> ELSE SubSeq(pp.parts, 1, Len(pp.parts) - 1)]

\* path / name
Div(pp, name) == [abs |-> pp.abs, parts |-> pp.parts \o PathParts(name)]

\* the components left once every ".." has taken back its predecessor
RECURSIVE DropDotDot(_, _)
DropDotDot(done, rest) ==
    IF rest = <<>> THEN done
    ELSE IF Head(rest) = <<".", ".">>
    THEN DropDotDot(IF done = <<>> THEN <<>> ELSE SubSeq(done, 1, Len(done) - 1), Tail(rest))
    ELSE DropDotDot(Append(done, Head(rest)), Tail(rest))

\* path.resolve(): absolute and normalized; the path need not exist
Resolve(pp) ==
    [abs |-> TRUE,
     parts |-> DropDotDot(<<>>, (IF pp.abs THEN <<>> ELSE PathParts(Cwd)) \o pp.parts)]

\* path and the directories above it
RECURSIVE Ancestors(_)
Ancestors(pp) ==
    IF pp.parts = <<>> THEN {PathStr(pp)} ELSE {PathStr(pp)} \cup Ancestors(Parent(pp))

-----------------------------------------------------------------------------
\* The strict sanitizer (cryri/validators.py): raised is TRUE where the
\* assertion fails.

\* a double quote inside a text
DQ == "dquote"

\* f'"{p}" is not a directory or path does not exist!'
NotADirectory(r) == <<DQ>> \o r \o <<DQ, " is not a directory or path does not exist!">>

\* Path.is_dir()
IsDir(r) == r \in fs

\* a variant of the strict sanitizer with the assertion compiled away
SanitizeUnchecked(p) ==
    IF p.tag = "none" THEN [raised |-> FALSE, ret |-> NoneV, msg |-> <<>>]
    ELSE [raised |-> FALSE, ret |-> StrV(PathStr(Resolve(Path(p.v)))), msg |-> <<>>]

\* a variant of the strict sanitizer that drops a last part that is no
\* directory
SanitizeDropping(p) ==
    IF p.tag = "none" THEN [raised |-> FALSE, ret |-> NoneV, msg |-> <<>>]
    ELSE IF IsDir(PathStr(Resolve(Path(p.v))))
    THEN [raised |-> FALSE, ret |-> StrV(PathStr(Resolve(Path(p.v)))), msg |-> <<>>]
    ELSE [raised |-> FALSE, ret |-> StrV(PathStr(Parent(Resolve(Path(p.v))))), msg |-> <<>>]

\* sanitize_dir_path of validators.py: msg is the text of the
\* AssertionError where raised is TRUE
sanitize_dir_path(p) ==
    IF p.tag = "none" THEN [raised |-> FALSE, ret |-> NoneV, msg |-> <<>>]
    ELSE IF IsDir(PathStr(Resolve(Path(p.v))))
    THEN [raised |-> FALSE, ret |-> StrV(PathStr(Resolve(Path(p.v)))), msg |-> <<>>]
    ELSE [raised |-> TRUE, ret |-> NoneV, msg |-> NotADirectory(PathStr(Resolve(Path(p.v))))]

\* sanitize_dir_path of utils.py, the lenient one: it never raises
utils_sanitize_dir_path(p) ==
    IF p.tag = "none" THEN [raised |-> FALSE, ret |-> NoneV, msg |-> <<>>]
    ELSE IF IsDir(PathStr(Resolve(Path(p.v))))
    THEN [raised |-> FALSE, ret |-> StrV(PathStr(Resolve(Path(p.v)))), msg |-> <<>>]
    ELSE [raised |-> FALSE, ret |-> StrV(PathStr(Parent(Resolve(Path(p.v))))), msg |-> <<>>]

\* the validators of ContainerConfig.work_dir (config.py), in their order:
\* expand_vars_and_user, then sanitize_dir_path
ValidateDir(p) == sanitize_dir_path(expand_vars_and_user(p, environ))

-----------------------------------------------------------------------------
\* The sanitizers as a state machine: one call on one path, and for the
\* validators a second call on the result of the first.

\* longest path given to a sanitizer
MaxPathLen == 3

PathAlphabet == {"/", ".", "p", "$", "A", "~"}

PathInputs ==
    {NoneV} \cup {StrV(s) : s \in UNION {[1..n -> PathAlphabet] : n \in 0..MaxPathLen}}

SanEnvirons ==
    { [n \in {HOME} |-> <<"/", "h">>],
      [n \in {HOME, <<"A">>} |-> IF n = HOME THEN <<"/", "h">> ELSE <<"~">>],
      [n \in {HOME, <<"A">>, <<"A", "A">>} |->
          IF n = HOME THEN <<"/", "h">> ELSE IF n = <<"A">> THEN <<"/", "p">>
          ELSE <<"/", "$", "A">>] }

\* the directories on disk: a bare one, and one with the directories the
\* paths of the model name
SanFileSystems ==
    { {<<"/">>, <<"/", "w">>, <<"/", "h">>},
      {<<"/">>, <<"/", "w">>, <<"/", "h">>, <<"/", "p">>, <<"/", "w", "/", "p">>,
       <<"/", "h", "/", "p">>, <<"/", "$", "A">>, <<"/", "w", "/", "$", "A">>,
       <<"/", "p", "/", "p">>} }

SanitizeInit ==
    /\ ExpanderIdle
    /\ JobsIdle
    /\ environ \in SanEnvirons
    /\ fs \in SanFileSystems
    /\ rfile = [kind |-> "missing", cfg |-> <<>>]
    /\ rcfg = <<>>
    /\ rentry = "none"
    /\ now = "m1"
    /\ rplan = "ok"
    /\ revents = <<>>
    /\ rout = [kind |-> "none", v |-> <<>>]
    /\ rpc = "off"
    /\ sin \in PathInputs
    /\ sout = [raised |-> FALSE, ret |-> NoneV, msg |-> <<>>]
    /\ spc = "ready"

\* a sanitizer is called on the path: its outcome is kept
Sanitizing(r, pc) ==
    /\ spc = "ready"
    /\ sout' = r
    /\ spc' = pc
    /\ UNCHANGED <<environ, xvars, jvars, rvars, sin>>

\* validators.sanitize_dir_path(sin)
StrictSanitize == Sanitizing(sanitize_dir_path(sin), "strict")

\* utils.sanitize_dir_path(sin)
LenientSanitize == Sanitizing(utils_sanitize_dir_path(sin), "lenient")

\* ContainerConfig(work_dir=sin)
Validate == Sanitizing(ValidateDir(sin), "validated")

\* ContainerConfig(work_dir=q), q being the work_dir validated before
Revalidate ==
    /\ spc = "validated"
    /\ ~sout.raised
    /\ sin' = sout.ret
    /\ sout' = ValidateDir(sout.ret)
    /\ spc' = "revalidated"
    /\ UNCHANGED <<environ, xvars, jvars, rvars>>

SanitizeNext == StrictSanitize \/ LenientSanitize \/ Validate \/ Revalidate

SanitizeSpec == SanitizeInit /\ [][SanitizeNext]_vars

-----------------------------------------------------------------------------
\* The run path of cryri/main.py: _handle_config_file and submit_run.

TEAM_NAME == <<"TEAM_NAME">>

\* an external call or a log line
Ev(kind, a, b, c) == [kind |-> kind, a |-> a, b |-> b, c |-> c]

Returned(v) == [kind |-> "returned", v |-> v]
Raised(exc) == [kind |-> "raised", v |-> exc]

\* the call's outcome is that of o
SameOutcome(r, o) == r.kind = o.kind /\ r.v = o.v

\* what job.submit() returns
JobId == <<"job_id">>

\* the configurations a file may hold; NoneV is a key left out
WorkDirs ==
    { NoneV, StrV(<<".">>), StrV(<<"/", "w", "/", "p">>), StrV(<<"~", "/", "p">>),
      StrV(<<"/", "q", "/", "p">>), StrV(<<"/", "home", "/", "jovyan", "/", "p">>),
      StrV(<<"/", "w", "/", "home", "/", "jovyan", "/", "p">>) }

CopyDirs == { NoneV, StrV(<<"/", "c">>), StrV(<<"c", "/">>) }

EnvMaps ==
    { NoneV,
      DictV(<< <<StrV(<<"x">>), StrV(<<"$", "A">>)>> >>),
      DictV(<< <<StrV(TEAM_NAME), StrV(<<"tm">>)>> >>),
      DictV(<< <<StrV(TEAM_NAME), NoneV>> >>) }

Descriptions == { NoneV, StrV(<<"d">>) }

TagLists == { <<>>, << <<"t1">>, <<"t2">> >> }

Configs ==
    [ image : {StrV(<<"img">>)}, command : {StrV(<<"cmd">>)},
      environment : EnvMaps, work_dir : WorkDirs, run_from_copy : BOOLEAN,
      cry_copy_dir : CopyDirs, description : Descriptions, tags : TagLists ]

\* a file is missing, is not YAML, is an empty document, or holds a mapping
Files ==
    {[kind |-> k, cfg |-> <<>>] : k \in {"missing", "malformed", "empty"}}
    \cup {[kind |-> "ok", cfg |-> c] : c \in Configs}

\* CryConfig(**d) of main.py: its fields carry no validators
CryConfig(d) == d

\* sha1(...).hexdigest()[:HASH_LENGTH] of the minute
Sha1Prefix(n) == IF n = "m1" THEN "5ba9f3" ELSE "c01d7e"

\* run_{now}_{hash_suffix}
RunName(n) == <<"run_", n, "_", Sha1Prefix(n)>>

BaseDirs ==
    { <<"/">>, <<"/", "w">>, <<"/", "w", "/", "p">>, <<"/", "c">>, <<"/", "h">>,
      <<"/", "h", "/", "p">>, <<"/", "home">>, <<"/", "home", "/", "jovyan">>,
      <<"/", "home", "/", "jovyan", "/", "p">> }

\* the directories on disk: in the second, a run of the same minute has left
\* its folder
FileSystems ==
    { BaseDirs, BaseDirs \cup {<<"/", "c", "/">> \o RunName("m1")} }

RunEnvirons ==
    { [n \in {HOME, <<"A">>} |-> IF n = HOME THEN <<"/", "h">> ELSE <<"/", "w">>],
      [n \in {HOME, <<"A">>, TEAM_NAME} |->
          IF n = HOME THEN <<"/", "h">> ELSE IF n = <<"A">> THEN <<"/", "w">> ELSE <<"te">>] }

\* the remote API accepts the job, or Job(...) raises, or submit() raises
Plans == {"ok", "job_fails", "submit_fails"}

\* d.get(key, None) on a dict value
RECURSIVE ItemsGet(_, _)
ItemsGet(kvs, key) ==
    IF kvs = <<>> THEN NoneV
    ELSE IF Head(kvs)[1] = key THEN Head(kvs)[2]
    ELSE ItemsGet(Tail(kvs), key)

\* a variant that joins the tags last to first
RECURSIVE JoinTagsReversed(_)
JoinTagsReversed(tags) ==
    IF tags = <<>> THEN <<>>
    ELSE IF Len(tags) = 1 THEN <<"#">> \o tags[1]
    ELSE JoinTagsReversed(Tail(tags)) \o <<" ">> \o <<"#">> \o tags[1]

\* ' '.join(f"#{tag}" for tag in tags)
RECURSIVE JoinTags(_)
JoinTags(tags) ==
    IF tags = <<>> THEN <<>>
    ELSE IF Len(tags) = 1 THEN <<"#">> \o tags[1]
    ELSE <<"#">> \o tags[1] \o <<" ">> \o JoinTags(Tail(tags))

\* `x and ...` on an optional str: None and "" are false
TruthyStr(x) == x # NoneV /\ x.v # <<>>

\* create_job_description of main.py: raised is TRUE where Path(None) raises
create_job_description(cfg) ==
    LET fromMap == IF cfg.environment # NoneV
                   THEN ItemsGet(cfg.environment.v, StrV(TEAM_NAME))
                   ELSE NoneV
        team_name == IF fromMap # NoneV THEN fromMap
                     ELSE IF TEAM_NAME \in DOMAIN environ THEN StrV(environ[TEAM_NAME])
                     ELSE NoneV
    IN  IF cfg.description = NoneV /\ cfg.work_dir = NoneV
        THEN [raised |-> TRUE, ret |-> <<>>]
        ELSE LET base == IF cfg.description # NoneV THEN cfg.description.v
                         ELSE Replace(Replace(PathStr(Resolve(Path(cfg.work_dir.v))),
                                              <<"/", "home", "/", "jovyan", "/">>, <<>>),
                                      <<"/">>, <<"-">>)
                 teamed == IF team_name # NoneV THEN team_name.v \o <<"-">> \o base ELSE base
             IN  [raised |-> FALSE,
                  ret |-> IF cfg.tags # <<>>
                          THEN teamed \o <<" ">> \o JoinTags(cfg.tags)
                          ELSE teamed]

\* a variant of the lookup that asks the process environment first
TeamNameEnvFirst(cfg) ==
    IF TEAM_NAME \in DOMAIN environ THEN StrV(environ[TEAM_NAME])
    ELSE IF cfg.environment # NoneV THEN ItemsGet(cfg.environment.v, StrV(TEAM_NAME))
    ELSE NoneV

\* the team name of utils.create_job_description: environment.get, then
\* os.environ.get where that gave None
TeamName(cfg) ==
    LET fromMap == IF cfg.environment # NoneV
                   THEN ItemsGet(cfg.environment.v, StrV(TEAM_NAME))
                   ELSE NoneV
    IN  IF fromMap # NoneV THEN fromMap
        ELSE IF TEAM_NAME \in DOMAIN environ THEN StrV(environ[TEAM_NAME])
        ELSE NoneV

\* the loop over ['/home/jovyan']: the prefix is cut where the string
\* starts with it
CutPrefix(s, prefix) == IF StartsWith(s, prefix) THEN Tail_(s, Len(prefix) + 1) ELSE s

\* f"{job_description} #{team_name}"
WithTeam(job_description, team_name) ==
    IF team_name # NoneV THEN job_description \o <<" ", "#">> \o team_name.v
    ELSE job_description

\* create_job_description of utils.py: raised is TRUE where
\* None.startswith raises AttributeError
utils_create_job_description(cfg) ==
    IF cfg.description = NoneV /\ cfg.work_dir = NoneV
    THEN [raised |-> TRUE, ret |-> <<>>]
    ELSE [raised |-> FALSE,
          ret |-> WithTeam(IF cfg.description # NoneV THEN cfg.description.v
                           ELSE Replace(CutPrefix(cfg.work_dir.v, <<"/", "home", "/", "jovyan">>),
                                        <<"/">>, <<"-">>),
                           TeamName(cfg))]

\* the directory _create_run_copy copies: the parent of work_dir
CopyFromFolder(work_dir) == PathStr(Resolve(Parent(Path(work_dir))))

\* the directories shutil.copytree(src, dst) creates: dst and a copy of
\* each directory below src
CopiedTree(src, dst) ==
    LET below(d) == IF src = <<"/">> THEN d ELSE Tail_(d, Len(src) + 1)
    IN  {dst \o below(d) : d \in {e \in fs : StartsWith(e, src) /\ e # src}} \cup {dst}

\* shutil.copytree(src, dst): it fails on a source that is no directory
\* and on a destination that exists; disk is the file system it leaves
copytree(src, dst) ==
    IF src \notin fs
    THEN [raised |-> TRUE, exc |-> "FileNotFoundError", disk |-> fs]
    ELSE IF PathStr(Resolve(Path(dst))) \in fs
    THEN [raised |-> TRUE, exc |-> "FileExistsError", disk |-> fs]
    ELSE [raised |-> FALSE, exc |-> "",
          disk |-> fs \cup Ancestors(Resolve(Path(dst)))
                      \cup CopiedTree(src, PathStr(Resolve(Path(dst))))]

\* the last two lines of _create_run_copy: the copy, and the run folder
\* returned
CopyAndReturn(copy_from_folder, run_folder, cp) ==
    [raised |-> cp.raised, exc |-> cp.exc,
     ret |-> IF cp.raised THEN <<>> ELSE run_folder,
     events |-> <<Ev("copytree", copy_from_folder, run_folder, <<>>)>>,
     disk |-> cp.disk]

CopyInto(copy_from_folder, run_folder) ==
    CopyAndReturn(copy_from_folder, run_folder, copytree(copy_from_folder, run_folder))

\* not copying
NoCopy == [raised |-> FALSE, exc |-> "", ret |-> <<>>, events |-> <<>>, disk |-> fs]

\* _create_run_copy: ret is the run folder; Path(None) raises TypeError
_create_run_copy(cfg) ==
    IF cfg.work_dir = NoneV
    THEN [raised |-> TRUE, exc |-> "TypeError", ret |-> <<>>, events |-> <<>>, disk |-> fs]
    ELSE CopyInto(CopyFromFolder(cfg.work_dir.v),
                  PathStr(Div(Path(cfg.cry_copy_dir.v), RunName(now))))

\* f'bash -c "cd {cd} && {command}"'
Script(cd, command) == <<"bash -c ", DQ, "cd ">> \o cd \o <<" && ">> \o command \o <<DQ>>

\* a variant of the try block that submits once more when submit() raises
SubmitAttemptRetrying(cfg, job_description) ==
    IF cfg.work_dir = NoneV
    THEN [events |-> <<Ev("error_submit", "TypeError", <<>>, <<>>)>>, out |-> Raised("TypeError")]
    ELSE LET job == Ev("Job", Script(PathStr(Resolve(Path(cfg.work_dir.v))), cfg.command.v),
                       cfg.environment, job_description)
             submit == Ev("submit", <<>>, <<>>, <<>>)
         IN  IF rplan = "job_fails"
             THEN [events |-> <<job, Ev("error_submit", "JobError", <<>>, <<>>)>>,
                   out |-> Raised("JobError")]
             ELSE IF rplan = "submit_fails"
             THEN [events |-> <<job, submit, submit>>, out |-> Returned(JobId)]
             ELSE [events |-> <<job, submit>>, out |-> Returned(JobId)]

\* the try block of submit_run: Job(...), job.submit(), and the handler
\* that logs and re-raises
SubmitAttempt(cfg, job_description) ==
    IF cfg.work_dir = NoneV
    THEN [events |-> <<Ev("error_submit", "TypeError", <<>>, <<>>)>>, out |-> Raised("TypeError")]
    ELSE LET job == Ev("Job", Script(PathStr(Resolve(Path(cfg.work_dir.v))), cfg.command.v),
                       cfg.environment, job_description)
             submit == Ev("submit", <<>>, <<>>, <<>>)
         IN  IF rplan = "job_fails"
             THEN [events |-> <<job, Ev("error_submit", "JobError", <<>>, <<>>)>>,
                   out |-> Raised("JobError")]
             ELSE IF rplan = "submit_fails"
             THEN [events |-> <<job, submit, Ev("error_submit", "SubmitError", <<>>, <<>>)>>,
                   out |-> Raised("SubmitError")]
             ELSE [events |-> <<job, submit>>, out |-> Returned(JobId)]

Entered == <<Ev("submit_run", <<>>, <<>>, <<>>)>>

\* submit_run from the try block on: the call's events, outcome,
\* configuration and file system
Submitted(cfg, cp, job_description, try) ==
    [events |-> Entered \o cp.events
                \o <<Ev("info_submitting", job_description, <<>>, <<>>)>> \o try.events,
     out |-> try.out, cfg |-> cfg, disk |-> cp.disk]

\* submit_run from the description on
Described(cfg, cp, d) ==
    IF d.raised
    THEN [events |-> Entered \o cp.events, out |-> Raised("TypeError"),
          cfg |-> cfg, disk |-> cp.disk]
    ELSE Submitted(cfg, cp, d.ret, SubmitAttempt(cfg, d.ret))

\* cfg.container.work_dir = <the run folder>
WithWorkDir(cfg, work_dir) == [cfg EXCEPT !.work_dir = StrV(work_dir)]

\* submit_run after its first statement
Copied(cfg, cp) ==
    IF cp.raised
    THEN [events |-> Entered \o cp.events, out |-> Raised(cp.exc), cfg |-> cfg, disk |-> cp.disk]
    ELSE Described(WithWorkDir(cfg, cp.ret), cp, create_job_description(WithWorkDir(cfg, cp.ret)))

\* submit_run: the events, the outcome, the configuration and the file
\* system it leaves
submit_run(cfg) ==
    IF cfg.run_from_copy /\ TruthyStr(cfg.cry_copy_dir)
    THEN Copied(cfg, _create_run_copy(cfg))
    ELSE Described(cfg, NoCopy, create_job_description(cfg))

\* a variant of the loader that falls back to the default configuration
\* when the file cannot be read
LoadConfigOrDefault(file) ==
    IF file.kind = "ok" THEN [raised |-> FALSE, exc |-> "", cfg |-> CryConfig(file.cfg)]
    ELSE [raised |-> FALSE, exc |-> "",
          cfg |-> [image |-> NoneV, command |-> NoneV, environment |-> NoneV,
                   work_dir |-> NoneV, run_from_copy |-> FALSE, cry_copy_dir |-> NoneV,
                   description |-> NoneV, tags |-> <<>>]]

\* open(config_file), yaml.safe_load(file) and CryConfig(**...)
LoadConfig(file) ==
    IF file.kind = "missing" THEN [raised |-> TRUE, exc |-> "FileNotFoundError", cfg |-> <<>>]
    ELSE IF file.kind = "malformed" THEN [raised |-> TRUE, exc |-> "YAMLError", cfg |-> <<>>]
    ELSE IF file.kind = "empty" THEN [raised |-> TRUE, exc |-> "TypeError", cfg |-> <<>>]
    ELSE [raised |-> FALSE, exc |-> "", cfg |-> CryConfig(file.cfg)]

Started == <<Ev("info_running", <<>>, <<>>, <<>>)>>

\* the except clauses of _handle_config_file: FileNotFoundError and
\* yaml.YAMLError are logged and end the call, anything else goes on
Handled(exc, events, cfg, disk) ==
    IF exc = "FileNotFoundError"
    THEN [events |-> Append(events, Ev("error_not_found", <<>>, <<>>, <<>>)),
          out |-> Returned(<<>>), cfg |-> cfg, disk |-> disk]
    ELSE IF exc = "YAMLError"
    THEN [events |-> Append(events, Ev("error_yaml", <<>>, <<>>, <<>>)),
          out |-> Returned(<<>>), cfg |-> cfg, disk |-> disk]
    ELSE [events |-> events, out |-> Raised(exc), cfg |-> cfg, disk |-> disk]

\* _handle_config_file after submit_run
AfterSubmit(r) ==
    IF r.out.kind = "raised"
    THEN Handled(r.out.v, Started \o r.events, r.cfg, r.disk)
    ELSE [events |-> Started \o r.events \o <<Ev("info_status", r.out.v, <<>>, <<>>)>>,
          out |-> Returned(<<>>), cfg |-> r.cfg, disk |-> r.disk]

\* _handle_config_file after the configuration is loaded
AfterLoad(ld) ==
    IF ld.raised THEN Handled(ld.exc, Started, <<>>, fs)
    ELSE AfterSubmit(submit_run(ld.cfg))

_handle_config_file(file) == AfterLoad(LoadConfig(file))

RunInit ==
    /\ ExpanderIdle
    /\ SanitizerIdle
    /\ JobsIdle
    /\ environ \in RunEnvirons
    /\ rfile \in Files
    /\ rcfg = <<>>
    /\ fs \in FileSystems
    /\ now = "m1"
    /\ rplan \in Plans
    /\ revents = <<>>
    /\ rout = [kind |-> "none", v |-> <<>>]
    /\ rentry = "none"
    /\ rpc = "ready"

\* the call's effects on the state
Effects(r, entry) ==
    /\ revents' = r.events
    /\ rout' = r.out
    /\ rcfg' = r.cfg
    /\ fs' = r.disk
    /\ rentry' = entry
    /\ rpc' = "done"
    /\ UNCHANGED <<environ, xvars, svars, jvars, rfile, now, rplan>>

\* main() is given a configuration file
HandleConfigFile ==
    /\ rpc = "ready"
    /\ Effects(_handle_config_file(rfile), "handle")

\* submit_run is called with a loaded configuration
SubmitRunCall ==
    /\ rpc = "ready"
    /\ rfile.kind = "ok"
    /\ Effects(submit_run(CryConfig(rfile.cfg)), "submit_run")

\* what a call of a description builder leaves: nothing but its outcome
DescribeResult(cfg, d, exc) ==
    [events |-> <<>>, out |-> IF d.raised THEN Raised(exc) ELSE Returned(d.ret),
     cfg |-> cfg, disk |-> fs]

\* create_job_description of main.py is called with a loaded configuration
MainDescribeCall ==
    /\ rpc = "ready"
    /\ rfile.kind = "ok"
    /\ Effects(DescribeResult(CryConfig(rfile.cfg),
                              create_job_description(CryConfig(rfile.cfg)), "TypeError"),
               "main_describe")

\* create_job_description of utils.py is called with a configuration
UtilsDescribeCall ==
    /\ rpc = "ready"
    /\ rfile.kind = "ok"
    /\ Effects(DescribeResult(rfile.cfg, utils_create_job_description(rfile.cfg),
                              "AttributeError"),
               "utils_describe")

RunNext == HandleConfigFile \/ SubmitRunCall \/ MainDescribeCall \/ UtilsDescribeCall

RunSpec == RunInit /\ [][RunNext]_vars

-----------------------------------------------------------------------------
\* Properties of the run path.

EventsOf(kind) == {i \in 1..Len(revents) : revents[i].kind = kind}

\* C4: submit_run never retries: one call constructs the remote job at
\* most once and invokes submit() at most once; when the construction or
\* submit() fails the failure is logged after it and the same exception
\* reaches the caller; when submit() succeeds its value is returned.
C4_NoRetry ==
    rentry = "submit_run" =>
        /\ Cardinality(EventsOf("Job")) <= 1
        /\ Cardinality(EventsOf("submit")) <= 1
        /\ \A j \in EventsOf("Job") : rplan = "job_fails" =>
              /\ \E e \in EventsOf("error_submit") : e > j /\ revents[e].a = "JobError"
              /\ SameOutcome(rout, Raised("JobError"))
        /\ \A s \in EventsOf("submit") : rplan = "submit_fails" =>
              /\ \E e \in EventsOf("error_submit") : e > s /\ revents[e].a = "SubmitError"
              /\ SameOutcome(rout, Raised("SubmitError"))
        /\ \A s \in EventsOf("submit") : rplan = "ok" => SameOutcome(rout, Returned(JobId))

\* a call of submit_run in which submit() failed: logged and propagated
C4_Witness ==
    /\ rentry = "submit_run"
    /\ rplan = "submit_fails"
    /\ EventsOf("submit") # {}
    /\ EventsOf("error_submit") # {}
    /\ SameOutcome(rout, Raised("SubmitError"))

\* C5: for a configuration file that does not exist or is not YAML,
\* _handle_config_file logs the matching error and returns; submit_run is
\* not entered, nothing is copied and no remote call is made.
C5_BadFileAborts ==
    (rentry = "handle" /\ rfile.kind \in {"missing", "malformed"}) =>
        /\ SameOutcome(rout, Returned(<<>>))
        /\ rfile.kind = "missing" => EventsOf("error_not_found") # {}
        /\ rfile.kind = "malformed" => EventsOf("error_yaml") # {}
        /\ EventsOf("submit_run") = {}
        /\ EventsOf("copytree") = {}
        /\ EventsOf("Job") = {}
        /\ EventsOf("submit") = {}

\* _handle_config_file has returned from a file that is not YAML
C5_Witness ==
    /\ rentry = "handle"
    /\ rpc = "done"
    /\ rfile.kind = "malformed"
    /\ EventsOf("error_yaml") # {}

\* a field as the validators of cryri/config.py leave it: expanded, then
\* sanitized
Sanitized(p) == sanitize_dir_path(expand_vars_and_user(p, environ))

\* the configuration of the file after those validators
Normalized(cfg) ==
    [cfg EXCEPT !.environment = expand_vars_and_user(cfg.environment, environ),
                !.work_dir = Sanitized(cfg.work_dir).ret,
                !.cry_copy_dir = Sanitized(cfg.cry_copy_dir).ret]

\* the job was constructed from the normalized configuration n
JobFrom(job, cfg, n) ==
    /\ job.b = n.environment
    /\ rcfg.cry_copy_dir = n.cry_copy_dir
    /\ ~(cfg.run_from_copy /\ TruthyStr(cfg.cry_copy_dir)) =>
          /\ rcfg.work_dir = n.work_dir
          /\ job.c = create_job_description(n).ret

\* C6: on the run-a-config-file path, whenever the remote job is
\* constructed, the environment it is given is the expanded one, work_dir
\* and cry_copy_dir were expanded and then passed the sanitizer, and the
\* description is the one built from these normalized values.
C6_AsStated ==
    (rentry = "handle" /\ rfile.kind = "ok") =>
        \A j \in EventsOf("Job") :
            /\ ~Sanitized(rfile.cfg.work_dir).raised
            /\ ~Sanitized(rfile.cfg.cry_copy_dir).raised
            /\ JobFrom(revents[j], rfile.cfg, Normalized(rfile.cfg))

SnapshotRun(cfg, run_folder) ==
    /\ \A c \in EventsOf("copytree") :
          /\ revents[c].a = PathStr(Resolve(Path(cfg.work_dir.v)))
          /\ PathStr(Resolve(Path(revents[c].b))) = run_folder
    /\ \A j \in EventsOf("Job") :
          /\ \E c \in EventsOf("copytree") : c < j
          /\ revents[j].a = Script(run_folder, cfg.command.v)
          /\ cfg.description = NoneV =>
                HasInfix(revents[j].c, Replace(run_folder, <<"/">>, <<"-">>))
    /\ rout.kind = "raised" /\ EventsOf("Job") = {} => EventsOf("submit") = {}

\* C7: with run_from_copy true and cry_copy_dir set, submit_run copies the
\* configured working directory into a run_* folder under cry_copy_dir
\* that did not exist, before the remote job is constructed; the script's
\* cd target is that folder and the description names it; a failed copy
\* means no submission.  Otherwise nothing is copied and work_dir stays.
C7_AsStated ==
    (rentry = "submit_run" /\ rfile.kind = "ok") =>
        IF rfile.cfg.run_from_copy /\ TruthyStr(rfile.cfg.cry_copy_dir)
        THEN SnapshotRun(rfile.cfg,
                         PathStr(Resolve(Div(Path(rfile.cfg.cry_copy_dir.v), RunName(now)))))
        ELSE /\ EventsOf("copytree") = {}
             /\ rcfg.work_dir = rfile.cfg.work_dir

-----------------------------------------------------------------------------
\* More properties of JobManager.

\* the positions of the remote calls of an operation
CallsOf(op) == {i \in 1..Len(remote) : remote[i].op = op}

\* the hashes of the listing that hold the partial hash h
MatchingHashes(h) ==
    { jobs[k].hash : k \in { n \in 1..Len(jobs) :
          \E i \in 1..(Len(jobs[n].hash) - Len(h) + 1) :
              SubSeq(jobs[n].hash, i, i + Len(h) - 1) = h } }

\* C19 as stated: show_logs requests the logs of a job only after it has
\* seen a status that is not pending; when it gives up with the retry
\* budget spent, it requests none.
C19_AsStated ==
    jop = "show_logs" =>
        /\ CallsOf("logs") # {} => job_status \notin PendingStatuses
        /\ (\E i \in 1..Len(errors) : errors[i][1] = "Max retries reached") =>
              CallsOf("logs") = {}

\* C20 as stated: kill_job makes at most one kill call, for a listed hash
\* that holds the partial hash, and none when the partial hash is held by
\* the hashes of two or more listed jobs.
C20_AsStated ==
    jop = "kill_job" =>
        /\ Cardinality(CallsOf("kill")) <= 1
        /\ \A i \in CallsOf("kill") : remote[i].hash \in MatchingHashes(job_hash)
        /\ Cardinality(MatchingHashes(job_hash)) >= 2 => CallsOf("kill") = {}

-----------------------------------------------------------------------------
\* Properties of the description builders.

\* the configuration holds a TEAM_NAME entry in its environment mapping
HasTeamEntry(cfg) ==
    /\ cfg.environment # NoneV
    /\ \E i \in 1..Len(cfg.environment.v) : cfg.environment.v[i][1].v = TEAM_NAME

\* the value of that entry
TeamEntry(cfg) ==
    cfg.environment.v[CHOOSE i \in 1..Len(cfg.environment.v) :
                          cfg.environment.v[i][1].v = TEAM_NAME][2]

\* no team name is to be found for the configuration
NoTeam(cfg) ==
    /\ ~HasTeamEntry(cfg) \/ TeamEntry(cfg) = NoneV
    /\ TEAM_NAME \notin DOMAIN environ

\* the base the description is to have: the description field, else
\* work_dir without a leading /home/jovyan and with - for every /
BaseAsStated(cfg) ==
    IF cfg.description # NoneV THEN cfg.description.v
    ELSE LET w == cfg.work_dir.v
             pre == <<"/", "home", "/", "jovyan">>
             cut == IF Len(w) >= 4 /\ SubSeq(w, 1, 4) = pre THEN SubSeq(w, 5, Len(w)) ELSE w
         IN  [i \in 1..Len(cut) |-> IF cut[i] = "/" THEN "-" ELSE cut[i]]

\* a description builder has returned
Described_(entries) == rentry \in entries /\ rout.kind = "returned"

\* C16 as stated: with no team and no tags, the description a builder
\* returns is the description field when set, and otherwise work_dir
\* without a leading /home/jovyan and with every / replaced by -.
C16_AsStated ==
    (Described_({"main_describe", "utils_describe"}) /\ NoTeam(rfile.cfg) /\ rfile.cfg.tags = <<>>) =>
        rout.v = BaseAsStated(rfile.cfg)

\* the team name as C17 states it: the mapping's entry whenever there is
\* one, the process environment's otherwise
TeamAsStated(cfg) ==
    IF HasTeamEntry(cfg) THEN TeamEntry(cfg)
    ELSE IF TEAM_NAME \in DOMAIN environ THEN StrV(environ[TEAM_NAME])
    ELSE NoneV

\* the team name with an entry that holds no value passed over
TeamNonNull(cfg) ==
    IF HasTeamEntry(cfg) /\ TeamEntry(cfg) # NoneV THEN TeamEntry(cfg)
    ELSE IF TEAM_NAME \in DOMAIN environ THEN StrV(environ[TEAM_NAME])
    ELSE NoneV

\* the base with the team added once: `{base} #{team}` by utils.py,
\* `{team}-{base}` by main.py
Annotated(entry, base, team) ==
    IF team = NoneV THEN base
    ELSE IF entry = "utils_describe" THEN base \o <<" ", "#">> \o team.v
    ELSE team.v \o <<"-">> \o base

\* the calls C17 is read on: every call of the builder of utils.py, and
\* the calls of the builder of main.py with a description and no tags
TeamCase ==
    /\ Described_({"main_describe", "utils_describe"})
    /\ rentry = "main_describe" => rfile.cfg.description # NoneV /\ rfile.cfg.tags = <<>>

\* C17 as stated: a TEAM_NAME entry of the environment mapping decides
\* the team whenever there is one; the process environment is asked only
\* without an entry; a team found is added exactly once.
C17_AsStated ==
    TeamCase => rout.v = Annotated(rentry, BaseAsStated(rfile.cfg), TeamAsStated(rfile.cfg))

\* C17, amended: a TEAM_NAME entry of the environment mapping that holds a
\* value decides the team, whatever the process environment defines; the
\* process environment's TEAM_NAME is used when the mapping is absent, has
\* no such entry or holds it with no value; with neither there is no team
\* annotation; a team found is added exactly once.
C17_TeamPrecedence ==
    TeamCase => rout.v = Annotated(rentry, BaseAsStated(rfile.cfg), TeamNonNull(rfile.cfg))

\* the builder of utils.py has preferred the mapping's team to the one the
\* process environment defines
C17_Witness ==
    /\ rentry = "utils_describe"
    /\ HasTeamEntry(rfile.cfg)
    /\ TeamEntry(rfile.cfg) = StrV(<<"tm">>)
    /\ TEAM_NAME \in DOMAIN environ
    /\ rfile.cfg.description # NoneV
    /\ SameOutcome(rout, Returned(<<"d", " ", "#", "tm">>))

\* the tags as they are to end the description, the first n of them
RECURSIVE TagTokens(_, _)
TagTokens(tags, n) ==
    IF n = 0 THEN <<>> ELSE TagTokens(tags, n - 1) \o <<" ", "#">> \o tags[n]

\* the description of the configuration the job was built from, its tags
\* left out
Untagged == create_job_description([rcfg EXCEPT !.tags = <<>>]).ret

\* C18: the description given to client_lib.Job ends with the tags, each
\* with a # before it, a blank between them, in the configured order,
\* after the base with its team; without tags nothing is appended.
C18_TagsAppended ==
    rentry \in {"handle", "submit_run"} =>
        \A j \in EventsOf("Job") :
            revents[j].c = Untagged \o TagTokens(rfile.cfg.tags, Len(rfile.cfg.tags))

\* a job was submitted with a team and two tags
C18_Witness ==
    /\ rentry = "handle"
    /\ EventsOf("submit") # {}
    /\ rfile.cfg.tags = << <<"t1">>, <<"t2">> >>
    /\ rfile.cfg.description # NoneV
    /\ TEAM_NAME \in DOMAIN environ
    /\ \E j \in EventsOf("Job") :
          revents[j].c = <<"te", "-", "d", " ", "#", "t1", " ", "#", "t2">>

-----------------------------------------------------------------------------
\* More properties of the expander.

\* b is a with every string leaf expanded on its own and nothing else
\* changed
RECURSIVE Homomorphic(_, _)
Homomorphic(a, b) ==
    /\ b.tag = a.tag
    /\ IF a.tag = "str" THEN b.v = ExpandStr(a.v, environ)
       ELSE IF a.tag \in {"list", "tuple"}
       THEN /\ Len(b.v) = Len(a.v)
            /\ \A i \in 1..Len(a.v) : Homomorphic(a.v[i], b.v[i])
       ELSE IF a.tag = "dict"
       THEN /\ Len(b.v) = Len(a.v)
            /\ \A i \in 1..Len(a.v) :
                  /\ b.v[i][1].tag = a.v[i][1].tag
                  /\ b.v[i][1].v = a.v[i][1].v
                  /\ Homomorphic(a.v[i][2], b.v[i][2])
       ELSE b.v = a.v

\* C11: the result of expand_vars_and_user has the shape of its input:
\* None for None, a scalar that is no string as it was, a list for a list
\* and a tuple for a tuple with as many elements in the same order, a
\* dict with the same keys in the same order and no key expanded; every
\* string leaf is the expansion of the input's leaf at the same place.
C11_Homomorphism ==
    xpc = "done" => Homomorphic(xin, xout)

\* a finished call on a dict whose first key reads as a reference to a
\* defined variable and whose second value is a tuple
C11_Witness ==
    /\ xpc = "done"
    /\ xin = DictV(<< <<StrV(<<"$", "A">>), StrV(<<"$", "A">>)>>,
                      <<IntV(1), TupleV(<<StrV(<<"~">>)>>)>> >>)
    /\ <<"A">> \in DOMAIN environ
    /\ environ[<<"A">>] = <<"x">>
    /\ xout = DictV(<< <<StrV(<<"$", "A">>), StrV(<<"x">>)>>,
                       <<IntV(1), TupleV(<<StrV(<<"/", "h">>)>>)>> >>)

\* some string leaf of the argument differs from its expansion
SomeLeafExpanded == \E pr \in LeafPairs : pr[1] # pr[2]

\* C12 as stated: after a call the argument is as it was, and when a leaf
\* was expanded the result shares no list, tuple or dict object with the
\* argument.
C12_AsStated ==
    xpc = "done" =>
        /\ xin = xgiven
        /\ SomeLeafExpanded => xobjs \cap InputObjects(xin, <<>>) = {}

\* C12, amended: after a call the argument is as it was, and when a leaf
\* was expanded the result shares no list, no dict and no tuple that has
\* elements with the argument; an empty tuple of the argument may come
\* back as the same object.
C12_NotInPlace ==
    xpc = "done" =>
        /\ xin = xgiven
        /\ SomeLeafExpanded => xobjs \cap InputObjects(xin, <<>>) \subseteq {EmptyTuple}

\* a finished call that expanded the leaf of a list nested in a tuple and
\* built both containers anew
C12_Witness ==
    /\ xpc = "done"
    /\ xin = TupleV(<<StrV(<<"~">>), ListV(<<StrV(<<"$", "A">>)>>)>>)
    /\ SomeLeafExpanded
    /\ xobjs = {<<"built", <<>>>>, <<"built", <<2>>>>}
    /\ InputObjects(xin, <<>>) = {<<"given", <<>>>>, <<"given", <<2>>>>}

-----------------------------------------------------------------------------
\* Properties of the sanitizers.

\* some place of s begins a reference to a variable the environment defines
HasDefinedRef(s) ==
    \E i \in 1..Len(s) :
        /\ MatchAt(s, i).ok
        /\ VarName(MatchAt(s, i).group) \in DOMAIN environ

\* the second validation gave back the path it was given
SameAgain == ~sout.raised /\ sout.ret.tag = "str" /\ sout.ret.v = sin.v

\* C13 as stated: a path that expansion and sanitization produced is
\* produced again from itself, under the same environment and disk.
C13_AsStated ==
    (spc = "revalidated" /\ sin.tag = "str") => SameAgain

\* C13, amended: a path q that expansion and sanitization produced, and
\* that holds no reference to a variable the environment defines, is
\* produced again from itself under the same environment and disk.
C13_Idempotent ==
    (spc = "revalidated" /\ sin.tag = "str" /\ ~HasDefinedRef(sin.v)) => SameAgain

\* the second validation of a path that the first one made out of ~/p
C13_Witness ==
    /\ spc = "revalidated"
    /\ sin = StrV(<<"/", "h", "/", "p">>)
    /\ ~HasDefinedRef(sin.v)
    /\ SameAgain

\* s is absolute and has no empty, `.` or `..` component
IsNormalized(s) ==
    /\ StartsWith(s, <<"/">>)
    /\ \/ s = <<"/">>
       \/ \A c \in Range(Split(Tail_(s, 2), <<"/">>)) :
              c # <<>> /\ c # <<".">> /\ c # <<".", ".">>

\* C14: the strict sanitizer gives None for None; for a path it gives the
\* path resolved against the working directory exactly when that is a
\* directory on disk, and raises otherwise, returning nothing, with a
\* message that names the resolved path and says that it is not a
\* directory or does not exist.
C14_StrictSanitizer ==
    spc = "strict" =>
        IF sin.tag = "none" THEN ~sout.raised /\ sout.ret.tag = "none"
        ELSE LET r == PathStr(Resolve(Path(sin.v)))
             IN  /\ IsNormalized(r)
                 /\ r = PathStr(Resolve(Path(Cwd \o <<"/">> \o sin.v)))
                    \/ StartsWith(sin.v, <<"/">>)
                 /\ sout.raised <=> r \notin fs
                 /\ ~sout.raised => sout.ret.tag = "str" /\ sout.ret.v = r
                 /\ sout.raised =>
                       /\ sout.ret.tag = "none"
                       /\ sout.msg = <<DQ>> \o r
                                     \o <<DQ, " is not a directory or path does not exist!">>

\* the strict sanitizer has refused a relative path that names no
\* directory
C14_Witness ==
    /\ spc = "strict"
    /\ sin = StrV(<<"p", "/", "p">>)
    /\ sout.raised
    /\ sout.msg = <<DQ, "/", "w", "/", "p", "/", "p", DQ,
                    " is not a directory or path does not exist!">>

\* C15 as stated: what a sanitizer returns, if not None, is the absolute
\* normalized path of a directory on disk; the lenient sanitizer too, for
\* every path and disk.
C15_AsStated ==
    (spc \in {"strict", "lenient"} /\ ~sout.raised /\ sout.ret.tag = "str") =>
        /\ IsNormalized(sout.ret.v)
        /\ sout.ret.v \in fs

====
